---------------------------- MODULE Spec2Model ----------------------------
(***************************************************************************)
(* State-machine model of the asynchronous generation-task orchestrator of *)
(* the gateway: GenerationTask, track_progress and generate_3d_prompt in   *)
(* src/src/api/comfy.py, and the task registry and polling endpoints in    *)
(* src/src/app.py.                                                         *)
(*                                                                         *)
(* The gateway runs on one asyncio event loop.  An action of this model is *)
(* the code a coroutine runs between two suspension points (await): the    *)
(* websocket connect, the websocket read and asyncio.sleep.  The HTTP      *)
(* calls use the blocking requests library and are not suspension points.  *)
(***************************************************************************)
EXTENDS Integers, Sequences, FiniteSets, TLC

\* ------------------------------------------------------------------ bounds
\* Frames the backend sends over the whole run.
MaxFrames == 2
\* Unclean connection closes over the whole run.
MaxDisconnects == 1
\* Calls of start() on one task.
MaxStarts == 2

\* ------------------------------------------------------------- identities
TaskIds == {"t1", "t2"}
\* The flows that call result() on a task.
Callers == {"r1", "r2"}
ClientIds == {"a", "b"}
JobIds == {"J1", "J2"}
NoJob == "NoJob"
\* The queue_remaining values a status frame reports.
QueueVals == {0}
None == "None"

\* The prompt_id the backend mints for the job a task submits: unique per
\* submission (PromptQueueResponse.prompt_id).
JobOf(t) == IF t = "t1" THEN "J1" ELSE "J2"

VARIABLES
    workflow_tasks, \* app.py: client id -> set of task ids (the inner dict's keys)
    status,         \* GenerationTask.status
    event_log,      \* GenerationTask.event_log
    error,          \* GenerationTask.error
    task,           \* GenerationTask.task: None, "pending" or "finished"
    retval,         \* what _process returned (the value of awaiting self.task)
    pc,             \* where the driving routine of each task is suspended
    prompt_id,      \* prompt_meta.prompt_id of generate_3d_prompt
    wire,           \* the frames the backend sent to clientId=CLIENT_ID so far
    rpos,           \* index in wire of the last frame the task's open connection
                    \* delivered; 0 while the task reads no connection
    rcvd,           \* indices in wire of the frames the task's normalizer received
    n_submit,       \* number of POST /prompt requests issued for the task
    n_signal,       \* number of terminal signals (True/False) track_progress yielded
    n_append,       \* number of lines _process appended to the task's event log
    n_closed,       \* number of unclean connection closes so far
    exc,            \* the exception raised inside the try block of _process, if any
    calls,          \* the requests the task's routine issued to the backend, in
                    \* order: "upload", "submit", "connect" (the first opening of
                    \* the stream after a submission), "history", "file"
    cursor,         \* polling consumer: the n_received it sends next
    got,            \* polling consumer: the lines it was returned, in order
    n_deliver,      \* polling consumer: responses that carried at least one line
    probe,          \* probing reader: its last get_events call and the response
    rpc,            \* caller of result(): "idle", "waiting", "returned" or "raised"
    rval,           \* caller of result(): the value its last call returned
    resp            \* API client: its last request and the response to it

\* The state of the tasks, the backend and the registry.
corevars == <<workflow_tasks, status, event_log, error, task, retval, pc, prompt_id,
              wire, rpos, rcvd, n_submit, n_signal, n_append, n_closed, exc, calls>>
\* The state of the readers.
pollvars == <<cursor, got, n_deliver, probe, rpc, rval, resp>>
vars == <<corevars, pollvars>>

\* ----------------------------------------------------------------- frames
\* A frame is one websocket message.  type "badjson" is a payload json.loads
\* rejects; type "unknown" is JSON that ComfyUIMessageAdapter rejects; pid is
\* data.prompt_id when the payload carries one and NoJob otherwise.
StatusFrames == {[type |-> "status", pid |-> NoJob, q |-> q] : q \in QueueVals}
JobFrames ==
    {[type |-> ty, pid |-> j, q |-> 0] :
        ty \in {"progress", "execution_success", "unknown"}, j \in JobIds}
BadJson == [type |-> "badjson", pid |-> NoJob, q |-> 0]
Frames == StatusFrames \cup JobFrames \cup {BadJson}

\* ------------------------------------------------------------------ lines
\* An event-log line: its text (k, the formatted string a and the formatted
\* number n) and, for a line formatted from a frame, the index of that frame in
\* wire (0 otherwise).
Line(k, a, n, src) == [k |-> k, a |-> a, n |-> n, src |-> src]

\* track_progress: the line yielded for a validated message m.
LineOf(m, i) ==
    CASE m.type = "status" -> Line("Queue Remaining", None, m.q - 1, i)
      [] m.type = "progress" -> Line("Progress", m.pid, 0, i)
      [] m.type = "executing" -> Line("Executing Node", m.pid, 0, i)
      [] m.type = "execution_cached" -> Line("Cached Nodes", m.pid, 0, i)
      [] m.type = "executed" -> Line("Executed Node", m.pid, 0, i)
      [] m.type = "execution_start" -> Line("Started", m.pid, 0, i)
      [] m.type = "execution_success" -> Line("Complete", m.pid, 0, i)

\* track_progress: the line yielded for a message the adapter rejects.
UnknownLine(m, i) == Line("Unknown msg", m.pid, 0, i)

\* Mutant: the filter passes only messages that carry the job's identity.
Filtered_NoJobToo(m, pid) == m.pid # pid

\* Mutant: the filter on the job identity is missing.
Filtered_Off(m, pid) == FALSE

\* track_progress: the filter on the validated message.
Filtered(m, pid) == m.pid # NoJob /\ m.pid # pid

\* track_progress: the line yielded by the catch-all handler.
ErrorLine(e) == Line("Error", e, 0, 0)

\* generate_3d_prompt: the line yielded on the failure signal.
GenErrorLine == Line("An error occurred during generation.", None, 0, 0)



\* ---------------------------------------------------------------- helpers
IsPrefix(s, r) == Len(s) <= Len(r) /\ SubSeq(r, 1, Len(s)) = s

Last(s) == s[Len(s)]

Terminal == {"COMPLETED", "FAILED"}

\* The body of the response of GET /view when the backend does not have the
\* file (status 404).
NotFoundBody == "body of 404"

\* The result bytes get_file returns for a job.
FileOf(j) == IF j = "J1" THEN "file of J1" ELSE "file of J2"

\* ------------------------------------------------------------------- Init
\* create_app: an empty registry.  A task id not yet minted stands for a
\* GenerationTask as __init__ leaves it.
Init ==
    /\ workflow_tasks = <<>>
    /\ status = [t \in TaskIds |-> "NOT_STARTED"]
    /\ event_log = [t \in TaskIds |-> <<>>]
    /\ error = [t \in TaskIds |-> None]
    /\ task = [t \in TaskIds |-> None]
    /\ retval = [t \in TaskIds |-> None]
    /\ pc = [t \in TaskIds |-> "new"]
    /\ prompt_id = [t \in TaskIds |-> NoJob]
    /\ wire = <<>>
    /\ rpos = [t \in TaskIds |-> 0]
    /\ rcvd = [t \in TaskIds |-> {}]
    /\ n_submit = [t \in TaskIds |-> 0]
    /\ n_signal = [t \in TaskIds |-> 0]
    /\ n_append = [t \in TaskIds |-> 0]
    /\ n_closed = 0
    /\ exc = [t \in TaskIds |-> None]
    /\ calls = [t \in TaskIds |-> <<>>]
    /\ cursor = 0
    /\ got = <<>>
    /\ n_deliver = 0
    /\ probe = {}
    /\ rpc = [r \in Callers |-> "idle"]
    /\ rval = [r \in Callers |-> None]
    /\ resp = {}

\* --------------------------------------------------------------- registry
\* Mutant: the client's map is made afresh on every create.
Insert_Fresh(reg, c, t) ==
    [x \in (DOMAIN reg) \cup {c} |-> IF x = c THEN {t} ELSE reg[x]]

\* dict.setdefault(client_id, {}) followed by tasks[task_id] = task.
Insert(reg, c, t) ==
    [x \in (DOMAIN reg) \cup {c} |->
        IF x = c THEN (IF c \in DOMAIN reg THEN reg[c] ELSE {}) \cup {t}
        ELSE reg[x]]

\* The task ids that are keys of some client's map.
Minted == UNION {workflow_tasks[c] : c \in DOMAIN workflow_tasks}

\* GenerationTask.start: create_task schedules _process; nothing of it has run
\* when start returns.
Start(t) ==
    /\ task' = [task EXCEPT ![t] = "pending"]
    /\ pc' = [pc EXCEPT ![t] = "scheduled"]

\* add_obj_task / add_hdri_task, from the registry insert on (the code before
\* it touches no state of the model).  uuid4 mints an id not in use.
AddTask(c, t) ==
    /\ t \notin Minted
    /\ pc[t] = "new"
    /\ workflow_tasks' = Insert(workflow_tasks, c, t)
    /\ Start(t)
    /\ UNCHANGED <<status, event_log, error, retval, prompt_id, calls, wire, rpos, rcvd,
                   n_submit, n_signal, n_append, n_closed, exc, pollvars>>

\* The number of runs of _process that began for the task.
Runs(t) == Cardinality({i \in DOMAIN calls[t] : calls[t][i] = "upload"})

\* GenerationTask.start called again on a task whose routine has ended:
\* start tests nothing, so a new _process is scheduled and self.task is
\* replaced.  (A second call while the routine still runs would run two
\* routines on the task at once; the model follows one routine per task.)
StartAgain(t) ==
    /\ task[t] # None
    /\ pc[t] = "done"
    /\ Runs(t) < MaxStarts
    /\ Start(t)
    /\ UNCHANGED <<workflow_tasks, status, event_log, error, retval, prompt_id, calls,
                   wire, rpos, rcvd, n_submit, n_signal, n_append, n_closed, exc,
                   pollvars>>

\* --------------------------------------------------------- driving routine
\* Mutant: new lines are put at the head of the log.
AppendLines_AtHead(t, lines) ==
    /\ event_log' = [event_log EXCEPT ![t] = lines \o @]
    /\ n_append' = [n_append EXCEPT ![t] = @ + Len(lines)]

\* Mutant: event_log is one list shared by all tasks (a class attribute).
AppendLines_Shared(t, lines) ==
    /\ event_log' = [u \in TaskIds |-> event_log[u] \o lines]
    /\ n_append' = [n_append EXCEPT ![t] = @ + Len(lines)]

\* _process: self.event_log.append for each of lines, in order.
AppendLines(t, lines) ==
    /\ event_log' = [event_log EXCEPT ![t] = @ \o lines]
    /\ n_append' = [n_append EXCEPT ![t] = @ + Len(lines)]

\* Mutant: the handler wraps one iteration of the loop, so the routine goes on
\* after a failure.
ExceptHandler_Continues(t, pre, e) ==
    /\ error' = [error EXCEPT ![t] = e]
    /\ status' = [status EXCEPT ![t] = "FAILED"]
    /\ AppendLines(t, pre \o <<ErrorLine(e)>>)
    /\ UNCHANGED <<task, retval, pc>>

\* Mutant: the handler catches RuntimeError only; any other exception ends the
\* asyncio task with that exception.
ExceptHandler_Narrow(t, pre, e) ==
    IF e = "Comfyui stopped without completion."
    THEN /\ error' = [error EXCEPT ![t] = e]
         /\ status' = [status EXCEPT ![t] = "FAILED"]
         /\ AppendLines(t, pre \o <<ErrorLine(e)>>)
         /\ task' = [task EXCEPT ![t] = "finished"]
         /\ retval' = [retval EXCEPT ![t] = None]
         /\ pc' = [pc EXCEPT ![t] = "done"]
    ELSE /\ status' = [status EXCEPT ![t] = "IN_PROGRESS"]
         /\ AppendLines(t, pre)
         /\ task' = [task EXCEPT ![t] = "raised"]
         /\ pc' = [pc EXCEPT ![t] = "done"]
         /\ UNCHANGED <<error, retval>>

\* Mutant: the handler does not append the failure line.
ExceptHandler_NoLine(t, pre, e) ==
    /\ error' = [error EXCEPT ![t] = e]
    /\ status' = [status EXCEPT ![t] = "FAILED"]
    /\ AppendLines(t, pre)
    /\ task' = [task EXCEPT ![t] = "finished"]
    /\ retval' = [retval EXCEPT ![t] = None]
    /\ pc' = [pc EXCEPT ![t] = "done"]

\* _process: the except block for exception e; _process returns None.  pre
\* are the lines the loop of _process appended earlier in the same step.
ExceptHandler(t, pre, e) ==
    /\ error' = [error EXCEPT ![t] = e]
    /\ status' = [status EXCEPT ![t] = "FAILED"]
    /\ AppendLines(t, pre \o <<ErrorLine(e)>>)
    /\ task' = [task EXCEPT ![t] = "finished"]
    /\ retval' = [retval EXCEPT ![t] = None]
    /\ pc' = [pc EXCEPT ![t] = "done"]

\* An exception e is raised inside the try block of _process.
Raise(t, pre, e) ==
    /\ exc' = [exc EXCEPT ![t] = e]
    /\ ExceptHandler(t, pre, e)

\* _process from its first statement to the first suspension point: the status
\* write, then generate_3d_prompt up to the websocket connect of
\* track_progress.  upload_image and queue_prompt block the event loop; either
\* may raise.
ProcessBegin(t, outcome) ==
    /\ pc[t] = "scheduled"
    /\ \/ /\ outcome = "ok"
          /\ status' = [status EXCEPT ![t] = "IN_PROGRESS"]
          /\ prompt_id' = [prompt_id EXCEPT ![t] = JobOf(t)]
          /\ n_submit' = [n_submit EXCEPT ![t] = @ + 1]
          /\ calls' = [calls EXCEPT ![t] = @ \o <<"upload", "submit">>]
          /\ pc' = [pc EXCEPT ![t] = "connect"]
          /\ UNCHANGED <<event_log, n_append, error, task, retval, exc>>
       \/ /\ outcome = "upload_error"
          /\ Raise(t, <<>>, "upload_image failed")
          /\ calls' = [calls EXCEPT ![t] = @ \o <<"upload">>]
          /\ UNCHANGED <<prompt_id, n_submit>>
       \/ /\ outcome = "submit_error"
          /\ Raise(t, <<>>, "queue_prompt failed")
          /\ n_submit' = [n_submit EXCEPT ![t] = @ + 1]
          /\ calls' = [calls EXCEPT ![t] = @ \o <<"upload", "submit">>]
          /\ UNCHANGED prompt_id
    /\ UNCHANGED <<workflow_tasks, wire, rpos, rcvd, n_signal, n_closed, pollvars>>

\* Mutant: a new connection starts the event log afresh.
Connect_ClearsLog(t) ==
    /\ pc[t] = "connect"
    /\ rpos' = [rpos EXCEPT ![t] = Len(wire)]
    /\ pc' = [pc EXCEPT ![t] = "recv"]
    /\ event_log' = [event_log EXCEPT ![t] = <<>>]
    /\ calls' = [calls EXCEPT ![t] = IF Last(@) = "submit" THEN @ \o <<"connect">> ELSE @]
    /\ UNCHANGED <<workflow_tasks, status, error, task, retval, prompt_id,
                   wire, rcvd, n_submit, n_signal, n_append, n_closed, exc,
                   pollvars>>

\* track_progress: connect yields a new connection.  Frames sent before it
\* opened are not delivered on it.
Connect(t) ==
    /\ pc[t] = "connect"
    /\ rpos' = [rpos EXCEPT ![t] = Len(wire)]
    /\ pc' = [pc EXCEPT ![t] = "recv"]
    /\ calls' = [calls EXCEPT ![t] = IF Last(@) = "submit" THEN @ \o <<"connect">> ELSE @]
    /\ UNCHANGED <<workflow_tasks, status, event_log, error, task, retval, prompt_id,
                   wire, rcvd, n_submit, n_signal, n_append, n_closed, exc,
                   pollvars>>

\* track_progress: connect raises an error it does not retry; the exception
\* leaves both generators and reaches the except block of _process.
ConnectFail(t) ==
    /\ pc[t] = "connect"
    /\ Raise(t, <<>>, "connect failed")
    /\ UNCHANGED <<workflow_tasks, prompt_id, calls, wire, rpos, rcvd, n_submit, n_signal,
                   n_closed, pollvars>>

\* The backend sends a frame to every connection open under CLIENT_ID.
BackendEmit(m) ==
    /\ Len(wire) < MaxFrames
    /\ wire' = Append(wire, m)
    /\ UNCHANGED <<workflow_tasks, status, event_log, error, task, retval, pc,
                   prompt_id, calls, rpos, rcvd, n_submit, n_signal, n_append,
                   n_closed, exc, pollvars>>

\* The task stops reading its connection.
StopReading(t) == rpos' = [rpos EXCEPT ![t] = 0]

\* Mutant: the catch-all handler yields the error line only, without the
\* failure signal and the return, so the connect loop goes on.
Fatal_NoSignal(t, e) ==
    /\ AppendLines(t, <<ErrorLine(e)>>)
    /\ pc' = [pc EXCEPT ![t] = "connect"]
    /\ StopReading(t)
    /\ UNCHANGED <<status, error, task, retval, n_signal, exc>>

\* track_progress: `except Exception`: the error line, then the failure
\* signal.  generate_3d_prompt: a line for the failure signal, then it returns.
\* _process: the loop ends without a result, so it raises into its except
\* block.  No suspension point lies in between.
Fatal(t, e) ==
    /\ n_signal' = [n_signal EXCEPT ![t] = @ + 1]
    /\ StopReading(t)
    /\ Raise(t, <<ErrorLine(e), GenErrorLine>>, "Comfyui stopped without completion.")

\* Mutant: on the job-succeeded frame the completion line is yielded but the
\* normalizer does not stop: it goes on reading frames.
OnFrame_NoReturn(t, i) ==
    LET m == wire[i] IN
    IF m.type = "badjson"
    THEN /\ pc' = [pc EXCEPT ![t] = "connect"]
         /\ StopReading(t)
         /\ UNCHANGED <<status, event_log, n_append, error, task, retval, n_signal, exc>>
    ELSE IF m.type = "unknown"
    THEN /\ AppendLines(t, <<UnknownLine(m, i)>>)
         /\ rpos' = [rpos EXCEPT ![t] = i]
         /\ UNCHANGED <<status, error, task, retval, pc, n_signal, exc>>
    ELSE IF Filtered(m, prompt_id[t])
    THEN /\ rpos' = [rpos EXCEPT ![t] = i]
         /\ UNCHANGED <<status, event_log, n_append, error, task, retval, pc, n_signal,
                        exc>>
    ELSE IF m.type = "execution_success"
    THEN /\ AppendLines(t, <<LineOf(m, i)>>)
         /\ n_signal' = [n_signal EXCEPT ![t] = 1]
         /\ rpos' = [rpos EXCEPT ![t] = i]
         /\ UNCHANGED <<status, error, task, retval, pc, exc>>
    ELSE /\ AppendLines(t, <<LineOf(m, i)>>)
         /\ rpos' = [rpos EXCEPT ![t] = i]
         /\ UNCHANGED <<status, error, task, retval, pc, n_signal, exc>>

\* track_progress: one iteration of `async for raw in ws` on frame wire[i].
OnFrame(t, i) ==
    LET m == wire[i] IN
    IF m.type = "badjson"
    THEN \* json.JSONDecodeError: `continue` on the connect loop, a new connection.
         /\ pc' = [pc EXCEPT ![t] = "connect"]
         /\ StopReading(t)
         /\ UNCHANGED <<status, event_log, n_append, error, task, retval, n_signal, exc>>
    ELSE IF m.type = "unknown"
    THEN \* ValidationError: the line is yielded before the prompt filter.
         /\ AppendLines(t, <<UnknownLine(m, i)>>)
         /\ rpos' = [rpos EXCEPT ![t] = i]
         /\ UNCHANGED <<status, error, task, retval, pc, n_signal, exc>>
    ELSE IF Filtered(m, prompt_id[t])
    THEN /\ rpos' = [rpos EXCEPT ![t] = i]
         /\ UNCHANGED <<status, event_log, n_append, error, task, retval, pc, n_signal,
                        exc>>
    ELSE IF m.type = "execution_success"
    THEN \* The line, then True; generate_3d_prompt breaks and sleeps.
         /\ AppendLines(t, <<LineOf(m, i)>>)
         /\ n_signal' = [n_signal EXCEPT ![t] = @ + 1]
         /\ pc' = [pc EXCEPT ![t] = "settle"]
         /\ StopReading(t)
         /\ UNCHANGED <<status, error, task, retval, exc>>
    ELSE /\ AppendLines(t, <<LineOf(m, i)>>)
         /\ rpos' = [rpos EXCEPT ![t] = i]
         /\ UNCHANGED <<status, error, task, retval, pc, n_signal, exc>>

\* m is the job-succeeded frame of job pid.
IsSuccessOf(m, pid) == m.type = "execution_success" /\ m.pid = pid

\* The connection of t delivers the next frame.
Recv(t) ==
    /\ pc[t] = "recv"
    /\ rpos[t] < Len(wire)
    /\ rcvd' = [rcvd EXCEPT ![t] = @ \cup {rpos[t] + 1}]
    /\ OnFrame(t, rpos[t] + 1)
    /\ UNCHANGED <<workflow_tasks, prompt_id, calls, wire, n_submit, n_closed, pollvars>>

\* Mutant: ConnectionClosed has no handler of its own and is treated as fatal
\* by the catch-all handler.
ConnClosed_Fatal(t) ==
    /\ pc[t] = "recv"
    /\ n_closed < MaxDisconnects
    /\ n_closed' = n_closed + 1
    /\ Fatal(t, "connection closed")
    /\ UNCHANGED <<workflow_tasks, prompt_id, calls, wire, rcvd, n_submit, pollvars>>

\* Mutant: the retry loop encloses the submission, so a closed connection
\* runs the routine from its start.
ConnClosed_Restarts(t) ==
    /\ pc[t] = "recv"
    /\ n_closed < MaxDisconnects
    /\ n_closed' = n_closed + 1
    /\ pc' = [pc EXCEPT ![t] = "scheduled"]
    /\ StopReading(t)
    /\ UNCHANGED <<workflow_tasks, status, event_log, error, task, retval, prompt_id,
                   calls,
                   wire, rcvd, n_submit, n_signal, n_append, exc, pollvars>>

\* track_progress: ConnectionClosed is raised by the read; `continue` on the
\* connect loop.
ConnClosed(t) ==
    /\ pc[t] = "recv"
    /\ n_closed < MaxDisconnects
    /\ n_closed' = n_closed + 1
    /\ pc' = [pc EXCEPT ![t] = "connect"]
    /\ StopReading(t)
    /\ UNCHANGED <<workflow_tasks, status, event_log, error, task, retval, prompt_id,
                   calls,
                   wire, rcvd, n_submit, n_signal, n_append, exc, pollvars>>

\* Mutant: the end of the stream is retried like an unclean close.
StreamEnd_Reconnects(t) ==
    /\ pc[t] = "recv"
    /\ pc' = [pc EXCEPT ![t] = "connect"]
    /\ StopReading(t)
    /\ UNCHANGED <<workflow_tasks, status, event_log, error, task, retval, prompt_id,
                   calls,
                   wire, rcvd, n_submit, n_signal, n_append, n_closed, exc,
                   pollvars>>

\* track_progress: the read loop ends (the connection closed normally): the
\* RuntimeError raised after the loop is caught by `except Exception`.
StreamEnd(t) ==
    /\ pc[t] = "recv"
    /\ Fatal(t, "Connection closed without generation completion?")
    /\ UNCHANGED <<workflow_tasks, prompt_id, calls, wire, rcvd, n_submit, n_closed,
                   pollvars>>

\* track_progress: any other exception raised in the read loop.
RecvError(t) ==
    /\ pc[t] = "recv"
    /\ Fatal(t, "unexpected error")
    /\ UNCHANGED <<workflow_tasks, prompt_id, calls, wire, rcvd, n_submit, n_closed,
                   pollvars>>

\* Mutant: COMPLETED is written when the result fetch begins; the routine
\* has not ended and the fetch may still fail.
Complete_BeforeFetch(t, raw_file) ==
    /\ status' = [status EXCEPT ![t] = "COMPLETED"]
    /\ UNCHANGED <<task, retval, pc, event_log, n_append, error, exc>>

\* Mutant: _process does not return the file.
Complete_NoReturn(t, raw_file) ==
    /\ status' = [status EXCEPT ![t] = "COMPLETED"]
    /\ task' = [task EXCEPT ![t] = "finished"]
    /\ retval' = [retval EXCEPT ![t] = None]
    /\ pc' = [pc EXCEPT ![t] = "done"]
    /\ UNCHANGED <<event_log, n_append, error, exc>>

\* _process: the loop breaks with the file; status COMPLETED; the file is returned.
Complete(t, raw_file) ==
    /\ status' = [status EXCEPT ![t] = "COMPLETED"]
    /\ task' = [task EXCEPT ![t] = "finished"]
    /\ retval' = [retval EXCEPT ![t] = raw_file]
    /\ pc' = [pc EXCEPT ![t] = "done"]
    /\ UNCHANGED <<event_log, n_append, error, exc>>

\* Mutant: the file is fetched under a name made from the job identity,
\* without the result metadata.
Settle_FileOnly(t, outcome) ==
    /\ pc[t] = "settle"
    /\ Complete(t, FileOf(prompt_id[t]))
    /\ calls' = [calls EXCEPT ![t] = @ \o <<"file">>]
    /\ UNCHANGED <<workflow_tasks, prompt_id, wire, rpos, rcvd, n_submit, n_signal,
                   n_closed, pollvars>>

\* generate_3d_prompt after the sleep: get_history, the output slot, get_file
\* (all blocking), the result is yielded and _process finishes.  get_history
\* raises when the request fails or the history holds no record of the job;
\* get_file raises when the request fails, and returns the body of whatever
\* response it gets otherwise, that of a 404 included.
Settle(t, outcome) ==
    /\ pc[t] = "settle"
    /\ \/ /\ outcome = "ok"
          /\ Complete(t, FileOf(prompt_id[t]))
       \/ /\ outcome = "file_missing"
          /\ Complete(t, NotFoundBody)
       \/ /\ outcome = "history_error"
          /\ Raise(t, <<>>, "get_history failed")
       \/ /\ outcome = "output_missing"
          /\ Raise(t, <<>>, "KeyError")
       \/ /\ outcome = "file_error"
          /\ Raise(t, <<>>, "get_file failed")
    /\ calls' = [calls EXCEPT ![t] =
                    @ \o (IF outcome \in {"history_error", "output_missing"}
                          THEN <<"history">> ELSE <<"history", "file">>)]
    /\ UNCHANGED <<workflow_tasks, prompt_id, wire, rpos, rcvd, n_submit, n_signal,
                   n_closed, pollvars>>

\* ---------------------------------------------------------------- readers
\* Mutant: the slice starts one line late.
Slice_OffByOne(log, n) == SubSeq(log, n + 2, Len(log))

\* Mutant: the slice is the last n lines, list[-n:] with n > 0.
Slice_LastN(log, n) ==
    IF n <= 0 \/ n >= Len(log) THEN log ELSE SubSeq(log, Len(log) - n + 1, Len(log))

\* list[n:] of Python, n of either sign.
Slice(log, n) ==
    LET start == IF n < 0 THEN (IF Len(log) + n < 0 THEN 0 ELSE Len(log) + n) ELSE n
    IN SubSeq(log, start + 1, Len(log))

\* Mutant: the task is looked up by its id alone, under any client.
Found_AnyClient(c, t) == \E x \in DOMAIN workflow_tasks : t \in workflow_tasks[x]

\* workflow_tasks.get(client_id, {}).get(task_id) finds a task.
Found(c, t) == c \in DOMAIN workflow_tasks /\ t \in workflow_tasks[c]

\* get_obj_events / get_hdri_events: the response; the handler writes nothing.
GetEvents(c, t, n_received) ==
    IF ~Found(c, t) THEN [code |-> 404]
    ELSE [code |-> 200,
          events |-> Slice(event_log[t], n_received),
          n_received |-> Len(event_log[t])]

\* The task and the client the readers of the model poll.
PollTask == "t1"
PollClient == "a"

\* A consumer that keeps the returned total: one get_events call with the
\* n_received of the previous response (0 at first).
Poll ==
    LET r == GetEvents(PollClient, PollTask, cursor) IN
    /\ r.code = 200
    /\ cursor' = r.n_received
    /\ got' = got \o r.events
    /\ n_deliver' = IF r.events = <<>> THEN n_deliver ELSE n_deliver + 1
    /\ UNCHANGED <<corevars, probe, rpc, rval, resp>>

\* A reader that calls get_events with an index k up to the log's length and
\* keeps the call: k, the response, how many lines had been appended (at), and
\* the same of its previous call when that call had the same k (prev).
Probe(k) ==
    LET r == GetEvents(PollClient, PollTask, k) IN
    /\ r.code = 200
    /\ k <= Len(event_log[PollTask])
    /\ probe' = {[k |-> k, events |-> r.events, n_received |-> r.n_received,
                  at |-> n_append[PollTask],
                  prev |-> {[events |-> p.events, n_received |-> p.n_received,
                             at |-> p.at] : p \in {x \in probe : x.k = k}}]}
    /\ UNCHANGED <<corevars, cursor, got, n_deliver, rpc, rval, resp>>

\* check_obj_status / check_hdri_status: the response.
CheckStatus(c, t) ==
    IF ~Found(c, t) THEN [code |-> 404] ELSE [code |-> 200, status |-> status[t]]

\* get_obj_result / get_hdri_result: the response, sent once task.result()
\* has returned: success is False when the result is None.
GetResult(c, t) ==
    IF ~Found(c, t) THEN [code |-> 404] ELSE [code |-> 200, success |-> retval[t] # None]

\* An API client sends get_status, get_events or get_result for the pair
\* (c, t) and receives the response.  The handlers write no state of the
\* gateway; get_result answers a known pair when its task has finished.
ApiCall(op, c, t) ==
    /\ (op = "get_result" /\ Found(c, t)) => task[t] = "finished"
    /\ resp' = {[op |-> op, c |-> c, t |-> t,
                 r |-> CASE op = "get_status" -> CheckStatus(c, t)
                         [] op = "get_events" -> GetEvents(c, t, 0)
                         [] op = "get_result" -> GetResult(c, t)]}
    /\ UNCHANGED <<corevars, cursor, got, n_deliver, probe, rpc, rval>>

\* Mutant: a caller of an unstarted task waits for the task to be started.
ResultCall_Blocks(r, t) ==
    /\ rpc[r] # "waiting"
    /\ rpc' = [rpc EXCEPT ![r] = "waiting"]
    /\ rval' = [rval EXCEPT ![r] = None]
    /\ UNCHANGED <<corevars, cursor, got, n_deliver, probe, resp>>

\* GenerationTask.result up to its await: RuntimeError when self.task is None;
\* the caller is suspended on self.task otherwise.
ResultCall(r, t) ==
    /\ rpc[r] # "waiting"
    /\ rpc' = [rpc EXCEPT ![r] = IF task[t] = None THEN "raised" ELSE "waiting"]
    /\ rval' = [rval EXCEPT ![r] = None]
    /\ UNCHANGED <<corevars, cursor, got, n_deliver, probe, resp>>

\* Mutant: result returns what the task holds now instead of awaiting it.
ResultReturn_NoWait(r, t) ==
    /\ rpc[r] = "waiting"
    /\ rpc' = [rpc EXCEPT ![r] = "returned"]
    /\ rval' = [rval EXCEPT ![r] = retval[t]]
    /\ UNCHANGED <<corevars, cursor, got, n_deliver, probe, resp>>

\* GenerationTask.result: `await self.task` completes once _process has
\* returned, with the value _process returned.
ResultReturn(r, t) ==
    /\ rpc[r] = "waiting"
    /\ task[t] = "finished"
    /\ rpc' = [rpc EXCEPT ![r] = "returned"]
    /\ rval' = [rval EXCEPT ![r] = retval[t]]
    /\ UNCHANGED <<corevars, cursor, got, n_deliver, probe, resp>>

\* What the requests made after the settling delay can come to.
SettleOutcomes == {"ok", "file_missing", "history_error", "output_missing", "file_error"}

\* ------------------------------------------------------------------- Next
\* A step of task t's driving routine.
Drive(t) ==
    \/ \E o \in {"ok", "upload_error", "submit_error"} : ProcessBegin(t, o)
    \/ Connect(t)
    \/ ConnectFail(t)
    \/ Recv(t)
    \/ ConnClosed(t)
    \/ StreamEnd(t)
    \/ RecvError(t)
    \/ \E o \in SettleOutcomes : Settle(t, o)

\* The gateway with the tasks of one client and the backend.
Next ==
    \/ \E t \in TaskIds : AddTask(PollClient, t)
    \/ \E m \in Frames : BackendEmit(m)
    \/ \E t \in TaskIds : Drive(t)

Spec == Init /\ [][Next]_vars

\* One task and a consumer polling its events.
NextPoll ==
    \/ AddTask(PollClient, PollTask)
    \/ \E m \in Frames : BackendEmit(m)
    \/ Drive(PollTask)
    \/ Poll

SpecPoll == Init /\ [][NextPoll]_vars

\* One task and a reader probing its events at any index.
NextProbe ==
    \/ AddTask(PollClient, PollTask)
    \/ \E m \in Frames : BackendEmit(m)
    \/ Drive(PollTask)
    \/ \E k \in 0..Len(event_log[PollTask]) : Probe(k)

SpecProbe == Init /\ [][NextProbe]_vars

\* One task object and the flows that call result() on it, before and after
\* it is started.
NextResult ==
    \/ AddTask(PollClient, PollTask)
    \/ \E m \in Frames : BackendEmit(m)
    \/ Drive(PollTask)
    \/ \E r \in Callers : ResultCall(r, PollTask)
    \/ \E r \in Callers : ResultReturn(r, PollTask)

SpecResult == Init /\ [][NextResult]_vars

\* The requests of the polling API.
ApiOps == {"get_status", "get_events", "get_result"}

\* The frames of a backend that reports nothing but the end of the jobs it
\* was given.
SuccessFrames ==
    {m \in JobFrames :
        m.type = "execution_success" /\ \E t \in TaskIds : prompt_id[t] = m.pid}

\* The gateway with the clients of the API: creates and lookups under either
\* client identifier, for any task identity.  The driving routine of PollTask
\* runs, against a backend that sends only SuccessFrames; that of the other
\* task stays scheduled.
NextApi ==
    \/ \E c \in ClientIds, t \in TaskIds : AddTask(c, t)
    \/ \E m \in SuccessFrames : BackendEmit(m)
    \/ Drive(PollTask)
    \/ \E op \in ApiOps, c \in ClientIds, t \in TaskIds : ApiCall(op, c, t)

SpecApi == Init /\ [][NextApi]_vars

\* One task, its driving routine scheduled fairly.  The event loop runs a
\* routine that is ready: the first step of _process, the step after a
\* connection opened or failed to open, the step on a delivered frame and
\* the step after the sleep.  The backend and the network are arbitrary:
\* nothing obliges the backend to send a frame or a connection to end.
NextLive ==
    \/ AddTask(PollClient, PollTask)
    \/ \E m \in Frames : BackendEmit(m)
    \/ Drive(PollTask)

SpecLive ==
    /\ Init
    /\ [][NextLive]_vars
    /\ WF_vars(\E o \in {"ok", "upload_error", "submit_error"} :
                  ProcessBegin(PollTask, o))
    /\ WF_vars(Connect(PollTask) \/ ConnectFail(PollTask))
    /\ WF_vars(Recv(PollTask))
    /\ WF_vars(\E o \in SettleOutcomes :
                  Settle(PollTask, o))

\* The frames of recognized types other than the job-succeeded frame.
ProgressFrames == {m \in Frames : m.type \in {"status", "progress"}}

\* The gateway in the behaviours where uploads, submissions and connects
\* succeed and the only events on a connection are ProgressFrames and unclean
\* closes.
NextUnclean ==
    \/ \E t \in TaskIds : AddTask(PollClient, t)
    \/ \E m \in ProgressFrames : BackendEmit(m)
    \/ \E t \in TaskIds : ProcessBegin(t, "ok")
    \/ \E t \in TaskIds : Connect(t)
    \/ \E t \in TaskIds : Recv(t)
    \/ \E t \in TaskIds : ConnClosed(t)

SpecUnclean == Init /\ [][NextUnclean]_vars

\* One task whose owner may call start() on it again after its routine ended.
NextRestart ==
    \/ AddTask(PollClient, PollTask)
    \/ \E m \in Frames : BackendEmit(m)
    \/ Drive(PollTask)
    \/ StartAgain(PollTask)

SpecRestart == Init /\ [][NextRestart]_vars

\* One task, its routine scheduled fairly as in SpecLive, and a backend that
\* sends queue-status frames and the job-succeeded frame of a job it was
\* given, at any moment after the submission.
NextLost ==
    \/ AddTask(PollClient, PollTask)
    \/ \E m \in SuccessFrames \cup StatusFrames : BackendEmit(m)
    \/ Drive(PollTask)

SpecLost ==
    /\ Init
    /\ [][NextLost]_vars
    /\ WF_vars(\E o \in {"ok", "upload_error", "submit_error"} :
                  ProcessBegin(PollTask, o))
    /\ WF_vars(Connect(PollTask) \/ ConnectFail(PollTask))
    /\ WF_vars(Recv(PollTask))
    /\ WF_vars(\E o \in SettleOutcomes : Settle(PollTask, o))

\* ----------------------------------------------------------------- claims
StatusRank(s) ==
    CASE s = "NOT_STARTED" -> 0
      [] s = "IN_PROGRESS" -> 1
      [] OTHER -> 2

\* C1: a task's status only moves forward along NOT_STARTED, IN_PROGRESS,
\* {COMPLETED, FAILED}: every change of status raises its rank, so a terminal
\* status never changes and no status goes back.
C1_StatusMonotone ==
    [][\A t \in TaskIds :
          status'[t] # status[t] => StatusRank(status'[t]) > StatusRank(status[t])]_vars

\* C1 witness: two tasks ran interleaved, one to COMPLETED and one to FAILED.
C1_Witness ==
    /\ status["t1"] = "COMPLETED"
    /\ status["t2"] = "FAILED"
    /\ rcvd["t2"] # {}

\* C2: COMPLETED has the returned payload and no failure detail; FAILED has
\* the failure detail and no payload; NOT_STARTED and IN_PROGRESS have neither.
C2_PayloadXorFailure ==
    \A t \in TaskIds :
        /\ status[t] = "COMPLETED" =>
              task[t] = "finished" /\ retval[t] # None /\ error[t] = None
        /\ status[t] = "FAILED" =>
              task[t] = "finished" /\ retval[t] = None /\ error[t] # None
        /\ status[t] \in {"NOT_STARTED", "IN_PROGRESS"} =>
              task[t] # "finished" /\ retval[t] = None /\ error[t] = None

\* C2 witness: one task COMPLETED with its file while the other FAILED after
\* the success signal.
C2_Witness ==
    /\ status["t1"] = "COMPLETED" /\ retval["t1"] = FileOf("J1")
    /\ status["t2"] = "FAILED" /\ error["t2"] = "get_history failed"

\* C3: a COMPLETED task's normalizer received the execution_success frame of
\* the task's own job.
C3_CompletedOnlyOnOwnSuccess ==
    \A t \in TaskIds :
        status[t] = "COMPLETED" =>
            \E i \in rcvd[t] : IsSuccessOf(wire[i], prompt_id[t])

\* C3 witness: a task received the success frame of another job, lost its
\* connection, reconnected, received the success frame of its own job and
\* COMPLETED.
C3_Witness ==
    /\ pc["t2"] = "new"
    /\ wire = <<[type |-> "execution_success", pid |-> "J2", q |-> 0],
                [type |-> "execution_success", pid |-> "J1", q |-> 0]>>
    /\ rcvd["t1"] = {1, 2}
    /\ n_closed = 1
    /\ status["t1"] = "COMPLETED"

\* C4: no line of a task's event log comes from a frame that carries the job
\* identity of another job.
C4_NoForeignLines ==
    \A t \in TaskIds :
        \A k \in DOMAIN event_log[t] :
            LET l == event_log[t][k] IN
            l.src # 0 => wire[l.src].pid \in {NoJob, prompt_id[t]}

\* C5: every step leaves each event log a prefix of its next value: no line
\* is removed or changed.
C5_AppendOnly ==
    [][\A t \in TaskIds : IsPrefix(event_log[t], event_log'[t])]_vars

\* C5 witness: a task appended lines before and after a reconnect and then
\* failed.
C5_Witness ==
    /\ pc["t2"] = "new"
    /\ n_closed = 1
    /\ rcvd["t1"] = {1, 2}
    /\ status["t1"] = "FAILED"
    /\ Len(event_log["t1"]) = 5

\* C6: a task submits its job at most once, its normalizer yields at most one
\* terminal signal, and no frame has two lines in the event log.
C6_SubmitAndSignalOnce ==
    \A t \in TaskIds :
        /\ n_submit[t] <= 1
        /\ n_signal[t] <= 1
        /\ \A j, k \in DOMAIN event_log[t] :
              (j # k /\ event_log[t][j].src # 0) =>
                  event_log[t][j].src # event_log[t][k].src

\* C6 witness: a task was disconnected, reconnected and got the success signal.
C6_Witness ==
    /\ pc["t2"] = "new"
    /\ n_closed = 1
    /\ n_submit["t1"] = 1
    /\ n_signal["t1"] = 1
    /\ pc["t1"] = "settle"
    /\ Len(event_log["t1"]) = 2

\* C7: what the polling consumer was returned so far is the prefix of the log
\* whose length is the last returned total: no line twice, none missed.
C7_PollExactlyOnce ==
    /\ cursor <= Len(event_log[PollTask])
    /\ got = SubSeq(event_log[PollTask], 1, cursor)

\* C7 witness: three polls each returned lines, appends in between.
C7_Witness == n_deliver >= 3 /\ Len(got) >= 4

\* C8: of two consecutive get_events calls with the same index, the later
\* returns the earlier's lines as a prefix, and the same lines and total when
\* no line was appended in between.
C8_SameIndexStable ==
    \A p \in probe :
        \A q \in p.prev :
            /\ IsPrefix(q.events, p.events)
            /\ q.n_received <= p.n_received
            /\ q.at = p.at => (q.events = p.events /\ q.n_received = p.n_received)

\* C8 witness: the same index was probed twice with appends in between, and
\* the earlier call had returned lines.
C8_Witness ==
    \E p \in probe :
        \E q \in p.prev : q.events # <<>> /\ p.at > q.at /\ p.k > 0

\* C9: whenever an exception was raised inside the driving routine, the
\* routine has ended normally returning None, with status FAILED, the
\* exception stored and its failure line last in the event log.
C9_NoFailureEscapes ==
    \A t \in TaskIds :
        exc[t] # None =>
            /\ pc[t] = "done"
            /\ task[t] = "finished"
            /\ retval[t] = None
            /\ status[t] = "FAILED"
            /\ error[t] = exc[t]
            /\ event_log[t] # <<>>
            /\ Last(event_log[t]) = ErrorLine(exc[t])

\* C9 witness: one task failed fetching the result metadata, the other on
\* the failure signal of the normalizer.
C9_Witness ==
    /\ exc["t1"] = "get_history failed"
    /\ exc["t2"] = "Comfyui stopped without completion."

\* C10: in every state with status FAILED the failure detail is stored and the
\* last line of the event log is its failure line.
C10_FailedHasFailureLine ==
    \A t \in TaskIds :
        status[t] = "FAILED" =>
            /\ error[t] # None
            /\ event_log[t] # <<>>
            /\ Last(event_log[t]) = ErrorLine(error[t])

\* C10 witness: a task failed on a submission error, its failure line the
\* only line; the other failed after lines of its own.
C10_Witness ==
    /\ status["t1"] = "FAILED" /\ error["t1"] = "queue_prompt failed"
    /\ Len(event_log["t1"]) = 1
    /\ status["t2"] = "FAILED" /\ Len(event_log["t2"]) >= 4

\* C11: a caller of result() on a started task has returned only in a state
\* where the status is COMPLETED or FAILED; the value returned is what
\* get_file returned for the job when COMPLETED (the job's file, or the body
\* of the backend's not-found response) and None when FAILED, and all callers
\* that returned got the same value.
C11_ResultAfterTerminal ==
    \A r \in Callers :
        rpc[r] = "returned" =>
            /\ status[PollTask] \in Terminal
            /\ status[PollTask] = "COMPLETED" =>
                  rval[r] \in {FileOf(JobOf(PollTask)), NotFoundBody}
            /\ status[PollTask] = "FAILED" => rval[r] = None
            /\ \A q \in Callers : rpc[q] = "returned" => rval[q] = rval[r]

\* C11 witness: one caller called while the task ran, the other after it had
\* completed; both returned the file.
C11_Witness ==
    /\ status[PollTask] = "COMPLETED"
    /\ \A r \in Callers : rpc[r] = "returned" /\ rval[r] = FileOf("J1")

\* C12: a step in which a flow calls result() on a task on which start() was
\* not called ends the call with the not-started error in that same step and
\* changes nothing of the task: status stays NOT_STARTED, the event log, the
\* failure detail and the result are as before.
C12_NotStartedRaises ==
    [][\A r \in Callers :
          (rpc'[r] # rpc[r] /\ rpc[r] # "waiting" /\ pc[PollTask] = "new") =>
              /\ rpc'[r] = "raised"
              /\ status'[PollTask] = "NOT_STARTED"
              /\ UNCHANGED corevars]_vars

\* C12 witness: a call on the unstarted task raised; the task was started
\* afterwards and is running.
C12_Witness ==
    /\ rpc["r1"] = "raised"
    /\ rpc["r2"] = "waiting"
    /\ status[PollTask] = "IN_PROGRESS"
    /\ error[PollTask] = None

\* C13: a step that answers a get_status, get_events or get_result request
\* for a pair (c, t) that no create for c returned answers with the not-found
\* condition and nothing else, and leaves the registry as it was: no map is
\* created for c.
C13_UnknownPairNotFound ==
    [][resp' # resp =>
          \A x \in resp' :
              ~(x.c \in DOMAIN workflow_tasks /\ x.t \in workflow_tasks[x.c]) =>
                  /\ x.r = [code |-> 404]
                  /\ workflow_tasks' = workflow_tasks]_vars

\* C13 witness: a task created under client a was asked for under client b,
\* which has no map; the answer was not-found and b has no map.
C13_Witness ==
    /\ resp = {[op |-> "get_events", c |-> "b", t |-> "t1", r |-> [code |-> 404]]}
    /\ DOMAIN workflow_tasks = {"a"}
    /\ "t1" \in workflow_tasks["a"]
    /\ event_log["t1"] # <<>>

\* C14: no step removes a client's map or an entry of it, and a step that
\* changes the registry adds exactly one entry, under a task identity that
\* was in no map before, to the map of one client (a new map if the client
\* had none), every other map unchanged.
C14_RegistryOnlyGrows ==
    [][/\ \A c \in DOMAIN workflow_tasks :
              c \in DOMAIN workflow_tasks' /\ workflow_tasks[c] \subseteq workflow_tasks'[c]
       /\ workflow_tasks' # workflow_tasks =>
              \E c \in ClientIds, t \in TaskIds :
                  /\ \A x \in DOMAIN workflow_tasks : t \notin workflow_tasks[x]
                  /\ DOMAIN workflow_tasks' = DOMAIN workflow_tasks \cup {c}
                  /\ workflow_tasks'[c] =
                        (IF c \in DOMAIN workflow_tasks THEN workflow_tasks[c] ELSE {})
                            \cup {t}
                  /\ \A x \in DOMAIN workflow_tasks \ {c} :
                        workflow_tasks'[x] = workflow_tasks[x]]_vars

\* C14 witness: a client created a second task; both are entries of its map
\* and the first ran to its end meanwhile.
C14_Witness ==
    /\ DOMAIN workflow_tasks = {"a"}
    /\ workflow_tasks["a"] = {"t1", "t2"}
    /\ status["t1"] \in Terminal
    /\ pc["t2"] = "scheduled"
    /\ resp = {[op |-> "get_result", c |-> "a", t |-> "t1",
                r |-> [code |-> 200, success |-> TRUE]]}

\* C15: a step of the driving routine of one task leaves the status, the
\* event log, the failure detail and the result of every other task as they
\* were; in particular it never makes another task FAILED.
C15_TasksIndependent ==
    [][\A t \in TaskIds :
          Drive(t) =>
              \A u \in TaskIds \ {t} :
                  /\ status'[u] = status[u]
                  /\ event_log'[u] = event_log[u]
                  /\ error'[u] = error[u]
                  /\ retval'[u] = retval[u]
                  /\ task'[u] = task[u]]_vars

\* C15 witness: two tasks of one client ran interleaved on the shared wire;
\* one failed after logging lines while the other goes on reading with
\* lines of its own.
C15_Witness ==
    /\ PollClient \in DOMAIN workflow_tasks
    /\ workflow_tasks[PollClient] = {"t1", "t2"}
    /\ status["t1"] = "FAILED" /\ Len(event_log["t1"]) >= 3
    /\ status["t2"] = "IN_PROGRESS" /\ pc["t2"] = "recv"
    /\ event_log["t2"] # <<>>
    /\ error["t2"] = None

\* C16: once start() was called on a task, its status is eventually
\* COMPLETED or FAILED.
C16_EventuallyTerminal ==
    (task[PollTask] # None) ~> (status[PollTask] \in Terminal)

\* C17: in every state after start() has returned (the task holds its
\* asyncio task), the status is not NOT_STARTED.
C17_StartSetsInProgress ==
    \A t \in TaskIds : task[t] # None => status[t] # "NOT_STARTED"

\* C18: a step in which the normalizer of a task receives a frame that fails
\* to parse (invalid JSON, or JSON of no known schema) leaves it reading the
\* same connection at the next frame, yields no terminal signal and leaves
\* the status IN_PROGRESS.
C18_ParseFailureKeepsReading ==
    [][\A t \in TaskIds :
          (/\ pc[t] = "recv"
           /\ rcvd'[t] # rcvd[t]
           /\ wire[rpos[t] + 1].type \in {"badjson", "unknown"}) =>
              /\ pc'[t] = "recv"
              /\ rpos'[t] = rpos[t] + 1
              /\ n_signal'[t] = n_signal[t]
              /\ status'[t] = "IN_PROGRESS"]_vars

\* The messages of the errors that end the read loop of a connection other
\* than a connection-closed error.
ReadEndMessages == {"Connection closed without generation completion?", "unexpected error"}

\* C19: a step in which the read loop of a task's connection ends with no
\* frame delivered and no connection-closed error (the stream ended) happens
\* before any terminal signal, yields the failure signal after a line with a
\* descriptive message, opens no new connection and ends the task FAILED.
C19_StreamEndFails ==
    [][\A t \in TaskIds :
          (/\ pc[t] = "recv"
           /\ pc'[t] # "recv"
           /\ rcvd'[t] = rcvd[t]
           /\ n_closed' = n_closed) =>
              /\ n_signal[t] = 0 /\ n_signal'[t] = 1
              /\ pc'[t] = "done" /\ rpos'[t] = 0
              /\ status'[t] = "FAILED"
              /\ \E d \in ReadEndMessages :
                    event_log'[t] =
                        event_log[t] \o <<ErrorLine(d), GenErrorLine,
                                          ErrorLine("Comfyui stopped without completion.")>>]_vars

\* C19 witness: a task logged a frame, then its stream ended: the log ends
\* with the descriptive line, the generation-error line and the failure line.
C19_Witness ==
    /\ status["t1"] = "FAILED"
    /\ error["t1"] = "Comfyui stopped without completion."
    /\ Len(event_log["t1"]) = 4
    /\ event_log["t1"][1].k = "Progress"
    /\ event_log["t1"][2] = ErrorLine("Connection closed without generation completion?")
    /\ n_signal["t1"] = 1
    /\ n_closed = 0

\* C20: in the behaviours whose only connection events are recognized
\* non-success frames and unclean closes, a task whose driving routine has
\* begun is IN_PROGRESS in every state, connecting or reading, with no
\* failure stored and no terminal signal.
C20_UncleanCloseNotFailure ==
    \A t \in TaskIds :
        pc[t] \notin {"new", "scheduled"} =>
            /\ status[t] = "IN_PROGRESS"
            /\ pc[t] \in {"connect", "recv"}
            /\ error[t] = None
            /\ n_signal[t] = 0

\* C20 witness: every unclean close the bound allows has happened; the task
\* read a frame on its first connection, reopened the stream and read a
\* frame on the new one.
C20_Witness ==
    /\ n_closed = MaxDisconnects
    /\ pc["t1"] = "recv"
    /\ Len(event_log["t1"]) = MaxFrames
    /\ status["t1"] = "IN_PROGRESS"

\* track_progress yields a line for frame m when tracking job pid.
Surfaced(m, pid) ==
    /\ m.type # "badjson"
    /\ m.type = "unknown" \/ ~(m.pid # NoJob /\ m.pid # pid)

\* C21: in a task's event log the lines formatted from frames stand in the
\* order in which the frames were received (the order of the wire), and in
\* every state each frame received so far that yields a line has its line in
\* the log: the line is appended in the step that reads the frame.
C21_LinesInReceiveOrder ==
    \A t \in TaskIds :
        /\ \A j, k \in DOMAIN event_log[t] :
              (j < k /\ event_log[t][j].src # 0 /\ event_log[t][k].src # 0) =>
                  event_log[t][j].src < event_log[t][k].src
        /\ \A i \in rcvd[t] :
              Surfaced(wire[i], prompt_id[t]) =>
                  \E k \in DOMAIN event_log[t] : event_log[t][k].src = i

\* C21 witness: a task logged a frame, lost its connection, reconnected and
\* logged the next frame; the log has the two lines in that order.
C21_Witness ==
    /\ n_closed = 1
    /\ pc["t1"] = "recv"
    /\ rcvd["t1"] = {1, 2}
    /\ Len(event_log["t1"]) = 2
    /\ event_log["t1"][1].src = 1 /\ event_log["t1"][1].k = "Progress"
    /\ event_log["t1"][2].src = 2 /\ event_log["t1"][2].k = "Queue Remaining"

\* The exceptions a failed fetch of the result metadata or bytes raises.
FetchErrors == {"get_history failed", "KeyError", "get_file failed"}

\* C22: a task whose fetch of the result metadata or of the result bytes
\* failed after the success signal is FAILED and not COMPLETED: when the fetch
\* raised, the failure is stored and its line follows the completion line;
\* when the backend had no bytes for the file, the task is not COMPLETED.
C22_FetchFailureFails ==
    \A t \in TaskIds :
        /\ exc[t] \in FetchErrors =>
              /\ status[t] = "FAILED"
              /\ error[t] = exc[t]
              /\ Len(event_log[t]) >= 2
              /\ Last(event_log[t]) = ErrorLine(exc[t])
              /\ event_log[t][Len(event_log[t]) - 1].k = "Complete"
        /\ retval[t] = NotFoundBody => status[t] # "COMPLETED"

\* The requests of one run of the driving routine, in the order of the code.
CallOrder == <<"upload", "submit", "connect", "history", "file">>

\* Request x is among the requests c.
Has(c, x) == \E i \in DOMAIN c : c[i] = x

\* C23: in every step the requests a task's routine has issued are a prefix
\* of upload, submit, first stream opening, metadata fetch, bytes fetch; a
\* fetch has been issued only if the success frame of the task's own job was
\* received and the success signal emitted; the metadata fetch is issued in
\* a step that begins in the settling delay; and a COMPLETED task has issued
\* all of them.
C23_StepsInOrder ==
    [][\A t \in TaskIds :
          /\ IsPrefix(calls'[t], CallOrder)
          /\ Has(calls'[t], "history") =>
                /\ n_signal'[t] = 1
                /\ \E i \in rcvd'[t] : IsSuccessOf(wire'[i], prompt_id'[t])
          /\ (Has(calls'[t], "history") /\ ~Has(calls[t], "history")) => pc[t] = "settle"
          /\ Has(calls'[t], "file") => Has(calls'[t], "history")
          /\ status'[t] = "COMPLETED" => calls'[t] = CallOrder]_vars

\* C23 witness: a task went through all the steps, with a reconnect on the
\* way, and is COMPLETED.
C23_Witness ==
    /\ calls["t1"] = CallOrder
    /\ status["t1"] = "COMPLETED"
    /\ n_closed = 1
    /\ pc["t2"] = "new"

\* The largest element of a non-empty set of numbers.
Max(S) == CHOOSE x \in S : \A y \in S : y <= x

\* C24: a completion line in a task's log is formatted from the success
\* frame of the task's own job, that frame is the last frame the task
\* received, the success signal was emitted once and the reading has stopped;
\* only the failure line of a failed result fetch can follow the completion
\* line, and when the status is COMPLETED the completion line is the last
\* line of the log.
C24_CompleteLineLast ==
    \A t \in TaskIds :
        /\ \A k \in DOMAIN event_log[t] :
              event_log[t][k].k = "Complete" =>
                  /\ event_log[t][k] = Line("Complete", prompt_id[t], 0, Max(rcvd[t]))
                  /\ IsSuccessOf(wire[Max(rcvd[t])], prompt_id[t])
                  /\ n_signal[t] = 1
                  /\ pc[t] \in {"settle", "done"} /\ rpos[t] = 0
                  /\ \/ k = Len(event_log[t])
                     \/ /\ k = Len(event_log[t]) - 1
                        /\ status[t] = "FAILED"
                        /\ Last(event_log[t]) = ErrorLine(error[t])
        /\ status[t] = "COMPLETED" =>
              /\ event_log[t] # <<>>
              /\ Last(event_log[t]).k = "Complete"

\* C24 witness: the success frame of the task's job was followed on the
\* wire by another frame; the task is COMPLETED and its log ends with the
\* completion line.
C24_Witness ==
    /\ status["t1"] = "COMPLETED"
    /\ pc["t2"] = "new"
    /\ wire = <<[type |-> "execution_success", pid |-> "J1", q |-> 0],
                [type |-> "status", pid |-> NoJob, q |-> 0]>>
    /\ rcvd["t1"] = {1}
    /\ Last(event_log["t1"]) = Line("Complete", "J1", 0, 1)

\* C25: a failure-message line of the normalizer (the line of an exception
\* that ended the read loop other than connection-closed or invalid JSON)
\* occurs at most once in a task's log; the failure signal was emitted once,
\* no connection is open or being opened, and what follows the line is only
\* what the consumers of the failure signal append: the generation-error
\* line and the failure line of the task.
C25_FatalOnceThenStops ==
    \A t \in TaskIds :
        \A k \in DOMAIN event_log[t] :
            (\E d \in ReadEndMessages : event_log[t][k] = ErrorLine(d)) =>
                /\ k = Len(event_log[t]) - 2
                /\ event_log[t][k + 1] = GenErrorLine
                /\ Last(event_log[t]) = ErrorLine("Comfyui stopped without completion.")
                /\ n_signal[t] = 1
                /\ pc[t] = "done" /\ rpos[t] = 0
                /\ status[t] = "FAILED"

\* C25 witness: after a reconnect and a logged frame the read raised an
\* unexpected error; the task stopped with the three closing lines.
C25_Witness ==
    /\ n_closed = 1
    /\ pc["t2"] = "new"
    /\ Len(event_log["t1"]) = 4
    /\ event_log["t1"][1].src # 0
    /\ event_log["t1"][2] = ErrorLine("unexpected error")
    /\ status["t1"] = "FAILED"

\* C26: every queue-status frame (a frame with no job identity) a task's
\* normalizer received has a queue line in that task's event log, whichever
\* jobs are streaming.
C26_StatusSurfacedByAll ==
    \A t \in TaskIds :
        \A i \in rcvd[t] :
            wire[i].type = "status" =>
                \E k \in DOMAIN event_log[t] :
                    event_log[t][k] = Line("Queue Remaining", None, wire[i].q - 1, i)

\* C26 witness: two tasks with different jobs were streaming when the
\* backend sent one queue-status frame; both received it and each has its
\* line for it.
C26_Witness ==
    /\ wire # <<>>
    /\ wire[1].type = "status"
    /\ \A t \in TaskIds :
          /\ prompt_id[t] = JobOf(t)
          /\ 1 \in rcvd[t]
          /\ event_log[t] # <<>>
          /\ event_log[t][1].k = "Queue Remaining" /\ event_log[t][1].src = 1

\* C27: whatever calls of start() a task gets, at most one run of its driving
\* routine begins, its job is submitted at most once, and a COMPLETED or
\* FAILED status is never changed.
C27_StartGuarded ==
    [][\A t \in TaskIds :
          /\ Runs(t)' <= 1
          /\ n_submit'[t] <= 1
          /\ status[t] \in Terminal => status'[t] = status[t]]_vars

\* C28: from a state in which a task's status is COMPLETED or FAILED, no
\* step changes the task's event log, and get_events returns the same total
\* (the length of the final log) after the step as before it.
C28_TerminalLogFrozen ==
    [][\A t \in TaskIds :
          status[t] \in Terminal =>
              /\ event_log'[t] = event_log[t]
              /\ GetEvents(PollClient, t, 0).n_received = Len(event_log[t])
              /\ GetEvents(PollClient, t, 0)' = GetEvents(PollClient, t, 0)]_vars

\* C28 witness: a task completed on the first frame; the other task of the
\* client logged a later frame and is still running.
C28_Witness ==
    /\ status["t1"] = "COMPLETED"
    /\ Last(event_log["t1"]).src = 1
    /\ status["t2"] = "IN_PROGRESS"
    /\ event_log["t2"] # <<>>
    /\ Last(event_log["t2"]).src = 2

\* C29: once the backend has sent the job-succeeded frame of the job a task
\* submitted, the task's status is eventually COMPLETED or FAILED.
C29_SuccessLeadsToTerminal ==
    (\E i \in DOMAIN wire : IsSuccessOf(wire[i], prompt_id[PollTask]))
        ~> (status[PollTask] \in Terminal)

\* C30: the number in every queue line of every event log is not negative.
C30_QueueCountNonNegative ==
    \A t \in TaskIds :
        \A k \in DOMAIN event_log[t] :
            event_log[t][k].k = "Queue Remaining" => event_log[t][k].n >= 0

=============================================================================
